---- MODULE Spec2Model ----
(***************************************************************************)
(* mongo-vcore-agent-python/agent.py: a linear script that obtains an      *)
(* access token, builds a chat client from three environment variables,    *)
(* creates one agent, sends it one prompt and prints the response's text.  *)
(*                                                                         *)
(* DefaultAzureCredential, AzureOpenAIChatClient, the agent and the        *)
(* asyncio loop are external collaborators: the model records every call   *)
(* the script makes to them (in `calls`, what a mock would record) and     *)
(* lets each call either return or raise, whatever its arguments.          *)
(***************************************************************************)
EXTENDS Integers, Sequences, FiniteSets

VARIABLES
    pc,          \* position of the interpreter in agent.py
    name,        \* the module's __name__
    env,         \* os.environ restricted to the three variables the script reads
    credential,  \* module global `credential` (line 7)
    token,       \* module global `token` (line 8)
    agent,       \* module global `agent` (lines 11-20)
    result,      \* main()'s local `result` (line 23)
    stdout,      \* everything written to standard output so far
    exit,        \* exit status of the process, once it has ended
    calls,       \* the calls made to the external collaborators, in order
    pending      \* the external calls that have been issued and not yet answered

vars == <<pc, name, env, credential, token, agent, result, stdout, exit, calls, pending>>

-----------------------------------------------------------------------------
(* Bounds of the model *)

\* longest response text the agent returns
MaxTextLen == 2

-----------------------------------------------------------------------------
(* Python's None and a present value *)

None == <<>>
Some(v) == <<v>>

-----------------------------------------------------------------------------
(* Literals of agent.py *)

TokenScope == "https://ai.azure.com/.default"
EndpointVar == "AZURE_OPENAI_ENDPOINT"
DeploymentVar == "AZURE_OPENAI_CHAT_DEPLOYMENT_NAME"
ApiVersionVar == "AZURE_OPENAI_API_VERSION"
ApiKey == ""
Instructions == "You are good at telling jokes."
AgentName == "Joker"
Prompt == "Tell me a joke about a pirate."
MainName == "__main__"

-----------------------------------------------------------------------------
(* Inputs *)

EnvVars == {EndpointVar, DeploymentVar, ApiVersionVar}

\* values an environment variable that is set can hold (the empty string included)
EnvValues == {"", "v"}

\* every environment: each of the three variables unset, or set to a value
Environments == UNION {[S -> EnvValues] : S \in SUBSET EnvVars}

\* __name__ when run as a script, and when imported as a module
ModuleNames == {MainName, "agent"}

\* token strings the identity service can hand out
TokenValues == {"tokA", "tokB"}

TextAlphabet == {"a", "\n"}

RECURSIVE TextsUpTo(_)
TextsUpTo(n) ==
    IF n = 0 THEN {""}
    ELSE LET shorter == TextsUpTo(n - 1)
         IN  shorter \cup {s \o c : s \in shorter, c \in TextAlphabet}

\* the texts a response can carry
ResponseTexts == TextsUpTo(MaxTextLen)

-----------------------------------------------------------------------------
(* Pure helpers *)

\* os.getenv(key): the value, or None when the variable is unset
getenv(key) == IF key \in DOMAIN env THEN Some(env[key]) ELSE None

\* keyword arguments of AzureOpenAIChatClient(...): the token is not among them
ClientArgs_WithToken ==
    [endpoint        |-> getenv(EndpointVar),
     deployment_name |-> getenv(DeploymentVar),
     api_version     |-> getenv(ApiVersionVar),
     api_key         |-> IF token = None THEN ApiKey ELSE token[1].token]

ClientArgs ==
    [endpoint        |-> getenv(EndpointVar),
     deployment_name |-> getenv(DeploymentVar),
     api_version     |-> getenv(ApiVersionVar),
     api_key         |-> ApiKey]

\* keyword arguments of .create_agent(...)
AgentArgs_Swapped == [instructions |-> AgentName, name |-> Instructions]

AgentArgs == [instructions |-> Instructions, name |-> AgentName]

\* what print(x) writes: str(x) followed by the default end="\n"
PrintedForm_NoNewline(text) == text

PrintedForm(text) == text \o "\n"

Call(op, args) == [op |-> op, args |-> args]

\* positions at which the interpreter is inside an external call
InCall == {"in_credential", "in_get_token", "in_client", "in_create_agent", "in_run"}

\* positions at which execution is over
Terminal == {"done", "failed", "imported"}

-----------------------------------------------------------------------------
Init ==
    /\ pc = "start"
    /\ name \in ModuleNames
    /\ env \in Environments
    /\ credential = None
    /\ token = None
    /\ agent = None
    /\ result = None
    /\ stdout = ""
    /\ exit = None
    /\ calls = <<>>
    /\ pending = {}

-----------------------------------------------------------------------------
(* line 7: credential = DefaultAzureCredential() *)

CallCredential ==
    /\ pc = "start"
    /\ pc' = "in_credential"
    /\ calls' = Append(calls, Call("DefaultAzureCredential", <<>>))
    /\ pending' = pending \cup {"DefaultAzureCredential"}
    /\ UNCHANGED <<name, env, credential, token, agent, result, stdout, exit>>

ReturnCredential ==
    /\ pc = "in_credential"
    /\ pc' = "have_credential"
    /\ credential' = Some("credential")
    /\ pending' = pending \ {"DefaultAzureCredential"}
    /\ UNCHANGED <<name, env, token, agent, result, stdout, exit, calls>>

(* line 8: token = credential.get_token("https://ai.azure.com/.default") *)

CallGetToken ==
    /\ pc = "have_credential"
    /\ pc' = "in_get_token"
    /\ calls' = Append(calls, Call("get_token", [scope |-> TokenScope]))
    /\ pending' = pending \cup {"get_token"}
    /\ UNCHANGED <<name, env, credential, token, agent, result, stdout, exit>>

ReturnGetToken ==
    /\ pc = "in_get_token"
    /\ \E t \in TokenValues : token' = Some([token |-> t])
    /\ pc' = "have_token"
    /\ pending' = pending \ {"get_token"}
    /\ UNCHANGED <<name, env, credential, agent, result, stdout, exit, calls>>

(* lines 11-16: AzureOpenAIChatClient(endpoint=os.getenv(...), ..., api_key="") *)

\* variant: the client is constructed first, before any credential is requested
CallClient_BeforeToken ==
    /\ pc \in {"start", "have_token"}
    /\ pc' = "in_client"
    /\ calls' = Append(calls, Call("AzureOpenAIChatClient", ClientArgs))
    /\ pending' = pending \cup {"AzureOpenAIChatClient"}
    /\ UNCHANGED <<name, env, credential, token, agent, result, stdout, exit>>

CallClient ==
    /\ pc = "have_token"
    /\ pc' = "in_client"
    /\ calls' = Append(calls, Call("AzureOpenAIChatClient", ClientArgs))
    /\ pending' = pending \cup {"AzureOpenAIChatClient"}
    /\ UNCHANGED <<name, env, credential, token, agent, result, stdout, exit>>

ReturnClient ==
    /\ pc = "in_client"
    /\ pc' = "have_client"
    /\ pending' = pending \ {"AzureOpenAIChatClient"}
    /\ UNCHANGED <<name, env, credential, token, agent, result, stdout, exit, calls>>

(* lines 17-20: .create_agent(instructions=..., name=...) bound to `agent` *)

CallCreateAgent ==
    /\ pc = "have_client"
    /\ pc' = "in_create_agent"
    /\ calls' = Append(calls, Call("create_agent", AgentArgs))
    /\ pending' = pending \cup {"create_agent"}
    /\ UNCHANGED <<name, env, credential, token, agent, result, stdout, exit>>

ReturnCreateAgent ==
    /\ pc = "in_create_agent"
    /\ agent' = Some(calls[Len(calls)].args)
    /\ pc' = "module_loaded"
    /\ pending' = pending \ {"create_agent"}
    /\ UNCHANGED <<name, env, credential, token, result, stdout, exit, calls>>

(* line 26, __name__ != "__main__": the module body ends, main() is not run *)

SkipMain ==
    /\ pc = "module_loaded"
    /\ name # MainName
    /\ pc' = "imported"
    /\ UNCHANGED <<name, env, credential, token, agent, result, stdout, exit, calls, pending>>

(* lines 26-27 and 23: asyncio.run(main()) starts main(), which calls agent.run(...)
   and is suspended at the await *)

\* variant: the prompt is asked again once the script has completed
CallRun_Loop ==
    /\ pc \in {"module_loaded", "done"}
    /\ Len(calls) < 6
    /\ name = MainName
    /\ pc' = "in_run"
    /\ calls' = Append(calls, Call("run", [prompt |-> Prompt]))
    /\ pending' = pending \cup {"run"}
    /\ UNCHANGED <<name, env, credential, token, agent, result, stdout, exit>>

\* variant: the call is issued but not awaited, main() goes on with an empty result
CallRun_FireAndForget ==
    /\ pc = "module_loaded"
    /\ name = MainName
    /\ pc' = "have_result"
    /\ result' = Some([text |-> ""])
    /\ calls' = Append(calls, Call("run", [prompt |-> Prompt]))
    /\ pending' = pending \cup {"run"}
    /\ UNCHANGED <<name, env, credential, token, agent, stdout, exit>>

CallRun ==
    /\ pc = "module_loaded"
    /\ name = MainName
    /\ pc' = "in_run"
    /\ calls' = Append(calls, Call("run", [prompt |-> Prompt]))
    /\ pending' = pending \cup {"run"}
    /\ UNCHANGED <<name, env, credential, token, agent, result, stdout, exit>>

(* line 23: the awaited call completes and its value is bound to `result` *)

\* variant: after a response the prompt is sent once more
ReturnRun_AskAgain ==
    /\ pc = "in_run"
    /\ \E text \in ResponseTexts : result' = Some([text |-> text])
    /\ pc' = IF Len(calls) < 6 THEN "module_loaded" ELSE "have_result"
    /\ pending' = pending \ {"run"}
    /\ UNCHANGED <<name, env, credential, token, agent, stdout, exit, calls>>

ReturnRun ==
    /\ pc = "in_run"
    /\ \E text \in ResponseTexts : result' = Some([text |-> text])
    /\ pc' = "have_result"
    /\ pending' = pending \ {"run"}
    /\ UNCHANGED <<name, env, credential, token, agent, stdout, exit, calls>>

(* line 24: print(result.text) *)

PrintResult ==
    /\ pc = "have_result"
    /\ stdout' = stdout \o PrintedForm(result[1].text)
    /\ pc' = "printed"
    /\ UNCHANGED <<name, env, credential, token, agent, result, exit, calls, pending>>

(* line 27: main() returns, asyncio.run returns, the script ends: status 0 *)

ExitOk ==
    /\ pc = "printed"
    /\ pc' = "done"
    /\ exit' = Some(0)
    /\ UNCHANGED <<name, env, credential, token, agent, result, stdout, calls, pending>>

(* any external call raises: nothing in agent.py catches, so the exception leaves
   the module; run as a script, the interpreter ends with status 1 *)

\* variant: a failed prompt is retried once before giving up
Raise_RetryOnce ==
    /\ pc \in InCall
    /\ IF pc = "in_run" /\ Len(calls) = 5
         THEN pc' = "module_loaded" /\ exit' = exit
         ELSE pc' = "failed" /\ exit' = IF name = MainName THEN Some(1) ELSE None
    /\ pending' = {}
    /\ UNCHANGED <<name, env, credential, token, agent, result, stdout, calls>>

\* variant: the exception is caught and the script ends normally
Raise_ExitZero ==
    /\ pc \in InCall
    /\ pc' = "failed"
    /\ pending' = {}
    /\ exit' = IF name = MainName THEN Some(0) ELSE None
    /\ UNCHANGED <<name, env, credential, token, agent, result, stdout, calls>>

Raise ==
    /\ pc \in InCall
    /\ pc' = "failed"
    /\ pending' = {}
    /\ exit' = IF name = MainName THEN Some(1) ELSE None
    /\ UNCHANGED <<name, env, credential, token, agent, result, stdout, calls>>

-----------------------------------------------------------------------------
Next ==
    \/ CallCredential
    \/ ReturnCredential
    \/ CallGetToken
    \/ ReturnGetToken
    \/ CallClient
    \/ ReturnClient
    \/ CallCreateAgent
    \/ ReturnCreateAgent
    \/ SkipMain
    \/ CallRun
    \/ ReturnRun
    \/ PrintResult
    \/ ExitOk
    \/ Raise

Spec == Init /\ [][Next]_vars

\* every external call eventually returns or raises, and the interpreter keeps going
FairSpec == Spec /\ WF_vars(Next)

-----------------------------------------------------------------------------
(* Vocabulary of the properties *)

\* the operations called so far, in order
Ops == [i \in DOMAIN calls |-> calls[i].op]

CountOf(op) == Cardinality({i \in DOMAIN calls : calls[i].op = op})

IsPrefix(s, t) == Len(s) <= Len(t) /\ \A i \in DOMAIN s : s[i] = t[i]

\* the external calls of one complete execution, in program order
FullOrder ==
    <<"DefaultAzureCredential", "get_token", "AzureOpenAIChatClient", "create_agent", "run">>

RunAsScript == name = "__main__"

ValidConfiguration == DOMAIN env = EnvVars

Printed == pc \in {"printed", "done"}

-----------------------------------------------------------------------------
\* C1: in every state a 'run' call is preceded by a 'create agent' call, the agent
\* is only ever created as "Joker" with the fixed instructions and only ever asked
\* the pirate prompt; and an execution of the script in which every call succeeded
\* has made exactly one 'create agent' call and exactly one 'run' call.
C1_OneCreateThenOneRun ==
    /\ \A i \in DOMAIN calls :
         /\ calls[i].op = "create_agent" =>
              calls[i].args = [instructions |-> "You are good at telling jokes.",
                               name |-> "Joker"]
         /\ calls[i].op = "run" =>
              /\ calls[i].args = [prompt |-> "Tell me a joke about a pirate."]
              /\ \E j \in 1..(i - 1) : calls[j].op = "create_agent"
    /\ CountOf("create_agent") <= 1
    /\ CountOf("run") <= 1
    /\ pc = "done" => CountOf("create_agent") = 1 /\ CountOf("run") = 1

C1_Witness ==
    /\ pc = "done"
    /\ ValidConfiguration
    /\ CountOf("create_agent") = 1
    /\ CountOf("run") = 1

-----------------------------------------------------------------------------
\* C3 (as stated): once printed, standard output equals exactly the text field of
\* the response.
C3_StdoutIsExactlyText == Printed => stdout = result[1].text

\* C3 (amended): once printed, standard output equals the text field of the
\* response, unchanged, followed by the one newline print() appends; before the
\* print nothing has been written. The text is therefore written exactly once.
C3_StdoutIsTextAndNewline ==
    /\ Printed => result # None /\ stdout = result[1].text \o "\n"
    /\ ~Printed => stdout = ""

C3_Witness == pc = "printed" /\ result = Some([text |-> "a\n"]) /\ stdout = "a\n\n"

-----------------------------------------------------------------------------
\* C4: in every reachable state at most one 'run' request has been issued.
C4_SingleShot == CountOf("run") <= 1

C4_Witness ==
    /\ CountOf("run") = 1
    /\ \/ pc = "done" /\ result = Some([text |-> "aa"])
       \/ pc = "failed"

-----------------------------------------------------------------------------
\* C5: when an external call has failed, the script (run as a script) has ended with
\* status 1, nothing was written to standard output, no call was made twice or out of
\* order, the name the failed call would have bound and every later one are still
\* unset, and from then on no further step is taken.
C5_FailFast ==
    /\ [](pc = "failed" =>
            /\ RunAsScript => exit = Some(1)
            /\ stdout = ""
            /\ pending = {}
            /\ Len(calls) >= 1
            /\ IsPrefix(Ops, FullOrder)
            /\ Len(calls) <= 1 => credential = None
            /\ Len(calls) <= 2 => token = None
            /\ Len(calls) <= 4 => agent = None
            /\ result = None)
    /\ [][pc = "failed" => pc' = "failed" /\ calls' = calls /\ stdout' = stdout]_vars

C5_Witness ==
    /\ pc = "failed"
    /\ RunAsScript
    /\ Ops = <<"DefaultAzureCredential", "get_token", "AzureOpenAIChatClient">>
    /\ exit = Some(1)

-----------------------------------------------------------------------------
\* the four external steps succeeded and the response text was printed
AllSucceededAndPrinted ==
    /\ credential # None
    /\ token # None
    /\ agent # None
    /\ result # None
    /\ Ops = FullOrder
    /\ stdout = result[1].text \o "\n"

\* C6: under FairSpec every execution reaches a final position; no status exists
\* before that; and an execution of the script ends with status 0 exactly when every
\* external step succeeded and the text was printed, and with status 1 otherwise.
C6_TerminatesWithStatus ==
    /\ <>(pc \in Terminal)
    /\ [](pc \notin Terminal => exit = None)
    /\ [](RunAsScript /\ pc \in Terminal =>
            /\ exit \in {Some(0), Some(1)}
            /\ exit = Some(0) <=> AllSucceededAndPrinted)

C6_Witness == RunAsScript /\ pc = "done" /\ exit = Some(0) /\ AllSucceededAndPrinted

-----------------------------------------------------------------------------
\* C7: the external calls made so far are always an initial part of the fixed order
\* credential, get_token (with the fixed scope), client, create_agent, run; a call is
\* issued only when every earlier one has returned and bound its name; the response
\* exists only after all five calls; and output exists only after the response.
C7_FixedOrder ==
    /\ IsPrefix(Ops, FullOrder)
    /\ \A i \in DOMAIN calls :
         calls[i].op = "get_token" => calls[i].args = [scope |-> "https://ai.azure.com/.default"]
    /\ pending \subseteq (IF calls = <<>> THEN {} ELSE {calls[Len(calls)].op})
    /\ Len(calls) >= 2 => credential # None
    /\ Len(calls) >= 3 => token # None
    /\ Len(calls) >= 5 => agent # None
    /\ result # None => Len(calls) = 5 /\ pending = {}
    /\ stdout # "" => result # None
    /\ Printed => stdout # ""
    /\ pc = "done" => Ops = FullOrder

C7_Witness == pc = "done" /\ Ops = FullOrder /\ stdout = "\n"

-----------------------------------------------------------------------------
\* the driver's coarse state: done once the script has completed, failed once an
\* external call has raised, not-run until then
DriverState ==
    CASE pc = "done" -> "done"
      [] pc = "failed" -> "failed"
      [] OTHER -> "not-run"

\* C8 (as stated): no execution reaches a state other than not-run and done.
C8_TwoStates == DriverState \in {"not-run", "done"}

\* C8 (amended): the driver has three states, not-run, done and failed; the only
\* transitions are not-run -> done and not-run -> failed; done and failed are final
\* (no step is taken from them); done means printed with status 0, failed means
\* nothing printed and, run as a script, status 1.
C8_ThreeStates ==
    /\ [][/\ DriverState = "not-run"
          /\ DriverState' \in {"not-run", "done", "failed"}]_vars
    /\ [](DriverState = "done" => exit = Some(0) /\ Printed)
    /\ [](DriverState = "failed" => stdout = "" /\ (RunAsScript => exit = Some(1)))

C8_Witness == DriverState = "failed" /\ RunAsScript /\ exit = Some(1) /\ Len(calls) = 2

-----------------------------------------------------------------------------
\* C9: at most one external call is pending at any moment; the prompt is pending
\* exactly while main() is suspended at the await, and then nothing has been bound
\* or printed; the only steps out of the suspension are the response and the
\* failure, neither of which calls or prints anything; and output exists only when
\* the response has arrived.
C9_SingleSuspension ==
    /\ [](Cardinality(pending) <= 1)
    /\ []("run" \in pending <=> pc = "in_run")
    /\ [](pc = "in_run" => result = None /\ stdout = "")
    /\ [](stdout # "" => "run" \notin pending /\ result # None)
    /\ [][pc = "in_run" =>
            /\ pc' \in {"have_result", "failed"}
            /\ calls' = calls
            /\ stdout' = stdout]_vars

C9_Witness == pc = "in_run" /\ pending = {"run"} /\ result = None

-----------------------------------------------------------------------------
\* C10: the client is only ever constructed with the three values os.getenv gives
\* (None for an unset variable) and the empty API key, whatever the token is; no
\* later call receives the token; and no client is constructed without a token
\* having been obtained.
C10_TokenUnused ==
    \A i \in DOMAIN calls :
        /\ calls[i].op = "AzureOpenAIChatClient" =>
             /\ calls[i].args =
                  [endpoint        |-> getenv("AZURE_OPENAI_ENDPOINT"),
                   deployment_name |-> getenv("AZURE_OPENAI_CHAT_DEPLOYMENT_NAME"),
                   api_version     |-> getenv("AZURE_OPENAI_API_VERSION"),
                   api_key         |-> ""]
             /\ token # None
        /\ calls[i].op = "create_agent" => DOMAIN calls[i].args = {"instructions", "name"}
        /\ calls[i].op = "run" => DOMAIN calls[i].args = {"prompt"}
        /\ calls[i].op \in {"create_agent", "run"} =>
             \A f \in DOMAIN calls[i].args : calls[i].args[f] \notin TokenValues

C10_Witness ==
    /\ pc = "done"
    /\ token = Some([token |-> "tokB"])
    /\ "AZURE_OPENAI_API_VERSION" \notin DOMAIN env
    /\ calls[3].args.api_key = ""

====
